---- MODULE Spec2Model ----
(***************************************************************************)
(* RusticSoup: the generic extractor (universal_extractor.rs) and the      *)
(* Google Shopping bulk parser (bulk_parser.rs).                           *)
(*                                                                         *)
(* Strings are sequences of tokens: a token is a run of characters that    *)
(* the code never looks inside, except the separator "@" and the blank     *)
(* " ", which are tokens of their own.  A parsed document is the sequence  *)
(* of its nodes in document order, each with its depth; the nodes listed   *)
(* are the content of <body>.                                              *)
(***************************************************************************)
EXTENDS Integers, Sequences, FiniteSets, TLC

VARIABLES pc, op, args, pending, running, slots, order, ret

vars == <<pc, op, args, pending, running, slots, order, ret>>

\* ---------------------------------------------------------------- bounds

MaxBlocks == 2

MaxRows == 2

MaxPages == 2

\* ---------------------------------------------------------------- strings

WS == " "

AT == "@"

Range(s) == {s[k] : k \in 1..Len(s)}

Max(S) == CHOOSE x \in S : \A y \in S : y <= x

Min(S) == CHOOSE x \in S : \A y \in S : x <= y

RECURSIVE Flatten(_)
Flatten(ss) == IF ss = <<>> THEN <<>> ELSE Head(ss) \o Flatten(Tail(ss))

\* Vec<&str>::join(sep)
RECURSIVE Join(_, _)
Join(ss, sep) ==
    IF ss = <<>> THEN <<>>
    ELSE IF Len(ss) = 1 THEN ss[1]
    ELSE ss[1] \o sep \o Join(Tail(ss), sep)

\* str::trim: leading and trailing white space removed
Trim(s) ==
    LET solid == {k \in 1..Len(s) : s[k] # WS}
    IN  IF solid = {} THEN <<>> ELSE SubSeq(s, Min(solid), Max(solid))

\* str::contains(c)
Contains(s, c) == \E k \in 1..Len(s) : s[k] = c

\* str::split(c).collect(): always at least one part
RECURSIVE Split(_, _)
Split(s, c) ==
    IF ~Contains(s, c) THEN <<s>>
    ELSE LET k == Min({j \in 1..Len(s) : s[j] = c})
         IN  <<SubSeq(s, 1, k - 1)>> \o Split(SubSeq(s, k + 1, Len(s)), c)

\* str::replace(t, ""), for a needle t that is one token
Remove(s, t) == SelectSeq(s, LAMBDA x : x # t)

\* str::starts_with(t), for a prefix t that is one token
StartsWith(s, t) == Len(s) > 0 /\ s[1] = t

\* ---------------------------------------------------------------- DOM

NoAttrs == [x \in {} |-> <<>>]

El(d, tag, attrs) == [kind |-> "el", depth |-> d, tag |-> tag, attrs |-> attrs, data |-> <<>>]

Tx(d, data) == [kind |-> "text", depth |-> d, tag |-> "", attrs |-> NoAttrs, data |-> data]

\* the last node of the subtree rooted at node i
SubtreeEnd(doc, i) ==
    Max({j \in i..Len(doc) : \A k \in (i + 1)..j : doc[k].depth > doc[i].depth})

Descendants(doc, i) == (i + 1)..SubtreeEnd(doc, i)

Ancestors(doc, k) ==
    {j \in 1..(k - 1) : doc[j].kind = "el" /\ k \in Descendants(doc, j)}

\* the indices of a set, in increasing order
RECURSIVE Sorted(_)
Sorted(S) == IF S = {} THEN <<>> ELSE <<Min(S)>> \o Sorted(S \ {Min(S)})

\* ElementRef::text(): the text nodes under element i, in document order
TextNodes(doc, i) ==
    LET ks == Sorted({k \in Descendants(doc, i) : doc[k].kind = "text"})
    IN  [n \in 1..Len(ks) |-> doc[ks[n]].data]

\* element.text().collect::<Vec<_>>().join(sep).trim()
ElementText(doc, i, sep) == Trim(Join(TextNodes(doc, i), sep))

\* element.value().attr(name)
HasAttr(node, name) == Len(name) = 1 /\ name[1] \in DOMAIN node.attrs

\* element.value().attr(name).unwrap_or("")
AttrOrEmpty(node, name) == IF HasAttr(node, name) THEN node.attrs[name[1]] ELSE <<>>

\* ---------------------------------------------------------------- selectors

Compound(tag, id, class, attr) == [tag |-> tag, id |-> id, class |-> class, attr |-> attr]

\* The selector texts the model knows, each with its compiled form: a set
\* of compound selectors (a selector list), each a conjunction of a type,
\* an id, a class and an attribute test ("" and <<>>: no test).
SelectorGrammar ==
    [s \in {"a", "span", "td", "tr", "table", "div.item", "#t1", "table.x", "td, th",
            "#sh-osd__online-sellers-cont", "tr[data-is-grid-offer=\"true\"]",
            "a.b5ycib", "span.g9WBQb", "div.drzWO", "a.UxuaJe"} |->
        CASE s = "a" -> {Compound("a", "", "", <<>>)}
          [] s = "span" -> {Compound("span", "", "", <<>>)}
          [] s = "td" -> {Compound("td", "", "", <<>>)}
          [] s = "tr" -> {Compound("tr", "", "", <<>>)}
          [] s = "table" -> {Compound("table", "", "", <<>>)}
          [] s = "div.item" -> {Compound("div", "", "item", <<>>)}
          [] s = "#t1" -> {Compound("", "t1", "", <<>>)}
          [] s = "table.x" -> {Compound("table", "", "x", <<>>)}
          [] s = "td, th" -> {Compound("td", "", "", <<>>), Compound("th", "", "", <<>>)}
          [] s = "#sh-osd__online-sellers-cont" ->
                {Compound("", "sh-osd__online-sellers-cont", "", <<>>)}
          [] s = "tr[data-is-grid-offer=\"true\"]" ->
                {Compound("tr", "", "", <<"data-is-grid-offer", "true">>)}
          [] s = "a.b5ycib" -> {Compound("a", "", "b5ycib", <<>>)}
          [] s = "span.g9WBQb" -> {Compound("span", "", "g9WBQb", <<>>)}
          [] s = "div.drzWO" -> {Compound("div", "", "drzWO", <<>>)}
          [] s = "a.UxuaJe" -> {Compound("a", "", "UxuaJe", <<>>)}]

\* Selector::parse(text): Ok(compiled) or Err; the empty text and any text
\* outside the grammar do not compile
SelectorParse(s) ==
    IF Len(s) = 1 /\ s[1] \in DOMAIN SelectorGrammar
    THEN [ok |-> TRUE, sel |-> SelectorGrammar[s[1]]]
    ELSE [ok |-> FALSE, sel |-> {}]

MatchesCompound(c, node) ==
    /\ c.tag \in {"", node.tag}
    /\ c.id = "" \/ ("id" \in DOMAIN node.attrs /\ node.attrs["id"] = <<c.id>>)
    /\ c.class = "" \/ ("class" \in DOMAIN node.attrs /\ c.class \in Range(node.attrs["class"]))
    /\ c.attr = <<>> \/ (c.attr[1] \in DOMAIN node.attrs /\ node.attrs[c.attr[1]] = <<c.attr[2]>>)

Matches(sel, node) == node.kind = "el" /\ \E c \in sel : MatchesCompound(c, node)

\* Html::select(sel): every matching element of the tree, in document order
HtmlSelect(doc, sel) == Sorted({k \in 1..Len(doc) : Matches(sel, doc[k])})

\* ElementRef::select(sel): the matching elements below element i
ElementSelect(doc, i, sel) == Sorted({k \in Descendants(doc, i) : Matches(sel, doc[k])})

\* ---------------------------------------------------------------- re-rooting

\* Start tags the tree builder ignores in the "in body" insertion mode, the
\* mode a fragment given the context element <body> starts in
TableParts == {"caption", "col", "colgroup", "tbody", "td", "tfoot", "th", "thead", "tr"}

HtmlRoot == El(0, "html", NoAttrs)

\* adjacent text nodes of one parent are one text node
RECURSIVE MergeText(_)
MergeText(nodes) ==
    IF Len(nodes) < 2 THEN nodes
    ELSE IF /\ nodes[1].kind = "text"
            /\ nodes[2].kind = "text"
            /\ nodes[1].depth = nodes[2].depth
         THEN MergeText(<<Tx(nodes[1].depth, nodes[1].data \o nodes[2].data)>>
                        \o SubSeq(nodes, 3, Len(nodes)))
         ELSE <<nodes[1]>> \o MergeText(Tail(nodes))

\* Html::parse_fragment(&element.html()) for element i of doc: the element's
\* outer markup parsed again with the context element <body>.  The tree is a
\* root <html> element holding the subtree; a table-structure element that
\* is not inside a <table> of the subtree is ignored by the tree builder and
\* its content takes its place.
ParseFragmentOfHtml(doc, i) ==
    LET sub  == SubSeq(doc, i, SubtreeEnd(doc, i))
        full == <<HtmlRoot>> \o
                [k \in 1..Len(sub) |-> [sub[k] EXCEPT !.depth = @ - sub[1].depth + 1]]
        Ignored(k) ==
            /\ full[k].kind = "el"
            /\ full[k].tag \in TableParts
            /\ \A j \in Ancestors(full, k) : full[j].tag # "table"
        Lift(k) == Cardinality({j \in Ancestors(full, k) : Ignored(j)})
        keep == Sorted({k \in 1..Len(full) : ~Ignored(k)})
    IN  MergeText([n \in 1..Len(keep) |->
                      [full[keep[n]] EXCEPT !.depth = @ - Lift(keep[n])]])

\* ---------------------------------------------------------------- universal_extractor.rs

None == [some |-> FALSE, selector |-> <<>>, has_attr |-> FALSE, attr |-> <<>>]

\* parse_selector_spec: Some((selector, attribute?)) or None
parse_selector_spec(spec) ==
    IF Contains(spec, AT)
    THEN LET parts == Split(spec, AT)
         IN  IF Len(parts) = 2
             THEN [some |-> TRUE, selector |-> parts[1], has_attr |-> TRUE, attr |-> parts[2]]
             ELSE None
    ELSE [some |-> TRUE, selector |-> spec, has_attr |-> FALSE, attr |-> <<>>]

\* the fields extract_data stops on: a spec that parses, whose selector does
\* not compile
BadFields(field_mappings) ==
    {f \in DOMAIN field_mappings :
        /\ parse_selector_spec(field_mappings[f]).some
        /\ ~SelectorParse(parse_selector_spec(field_mappings[f]).selector).ok}

\* compiled_selectors, as both extract_data and extract_single_page fill it:
\* one entry for every field whose spec parses and whose selector compiles
compiled_selectors(field_mappings) ==
    LET keys == {f \in DOMAIN field_mappings :
                    /\ parse_selector_spec(field_mappings[f]).some
                    /\ SelectorParse(parse_selector_spec(field_mappings[f]).selector).ok}
    IN  [f \in keys |->
            LET p == parse_selector_spec(field_mappings[f])
            IN  [selector |-> SelectorParse(p.selector).sel,
                 has_attr |-> p.has_attr, attr |-> p.attr]]

\* the value of one field in one re-rooted container
field_value(container_html, c) ==
    LET found == HtmlSelect(container_html, c.selector)
    IN  IF found # <<>>
        THEN IF c.has_attr
             THEN AttrOrEmpty(container_html[found[1]], c.attr)
             ELSE ElementText(container_html, found[1], <<WS>>)
        ELSE <<>>

\* extract_item with a key only for the fields that matched
extract_item_matched_only(container_html, compiled) ==
    [f \in {g \in DOMAIN compiled : HtmlSelect(container_html, compiled[g].selector) # <<>>} |->
        field_value(container_html, compiled[f])]

\* the record of one container: a key for every compiled field
extract_item(container_html, compiled) ==
    [f \in DOMAIN compiled |-> field_value(container_html, compiled[f])]

\* the loop over document.select(&container_sel)
extract_containers(document, container_sel, compiled) ==
    LET cs == HtmlSelect(document, container_sel)
    IN  [n \in 1..Len(cs) |->
            extract_item(ParseFragmentOfHtml(document, cs[n]), compiled)]

Ok(v) == [ok |-> TRUE, val |-> v, err |-> ""]

Err(e) == [ok |-> FALSE, val |-> <<>>, err |-> e]

extract_data(html, container_selector, field_mappings) ==
    IF ~SelectorParse(container_selector).ok
    THEN Err("Invalid container selector")
    ELSE IF BadFields(field_mappings) # {}
    THEN Err("Invalid selector for field")
    ELSE Ok(extract_containers(html, SelectorParse(container_selector).sel,
                               compiled_selectors(field_mappings)))

extract_single_page(html, container_selector, field_mappings) ==
    IF ~SelectorParse(container_selector).ok
    THEN <<>>
    ELSE extract_containers(html, SelectorParse(container_selector).sel,
                            compiled_selectors(field_mappings))

\* extract_table_data keeping the rows of no cells
extract_table_data_keep_empty(html, table_selector) ==
    IF ~SelectorParse(table_selector).ok
    THEN Err("Invalid table selector")
    ELSE LET row_sel  == SelectorParse(<<"tr">>).sel
             cell_sel == SelectorParse(<<"td, th">>).sel
             tables   == HtmlSelect(html, SelectorParse(table_selector).sel)
             RowsOf(t) ==
                 LET table_html == ParseFragmentOfHtml(html, t)
                     rows == HtmlSelect(table_html, row_sel)
                     row_data(r) ==
                         LET cells == ElementSelect(table_html, r, cell_sel)
                         IN  [n \in 1..Len(cells) |->
                                 ElementText(table_html, cells[n], <<WS>>)]
                 IN  [n \in 1..Len(rows) |-> row_data(rows[n])]
         IN  Ok(Flatten([n \in 1..Len(tables) |-> RowsOf(tables[n])]))

extract_table_data(html, table_selector) ==
    IF ~SelectorParse(table_selector).ok
    THEN Err("Invalid table selector")
    ELSE LET row_sel  == SelectorParse(<<"tr">>).sel
             cell_sel == SelectorParse(<<"td, th">>).sel
             tables   == HtmlSelect(html, SelectorParse(table_selector).sel)
             RowsOf(t) ==
                 LET table_html == ParseFragmentOfHtml(html, t)
                     rows == HtmlSelect(table_html, row_sel)
                     row_data(r) ==
                         LET cells == ElementSelect(table_html, r, cell_sel)
                         IN  [n \in 1..Len(cells) |->
                                 ElementText(table_html, cells[n], <<WS>>)]
                 IN  SelectSeq([n \in 1..Len(rows) |-> row_data(rows[n])],
                               LAMBDA rd : Len(rd) > 0)
         IN  Ok(Flatten([n \in 1..Len(tables) |-> RowsOf(tables[n])]))

\* ---------------------------------------------------------------- bulk_parser.rs

extract_seller_name(doc, row) ==
    LET sel   == SelectorParse(<<"a.b5ycib">>)
        found == ElementSelect(doc, row, sel.sel)
    IN  IF ~sel.ok THEN <<>>
        ELSE IF found # <<>>
        THEN Trim(Remove(Join(TextNodes(doc, found[1]), <<>>), "Opens in a new window"))
        ELSE <<>>

extract_price(doc, row) ==
    LET sel   == SelectorParse(<<"span.g9WBQb">>)
        found == ElementSelect(doc, row, sel.sel)
    IN  IF ~sel.ok THEN <<>>
        ELSE IF found # <<>> THEN ElementText(doc, found[1], <<>>)
        ELSE <<>>

extract_shipping(doc, row) ==
    LET sel   == SelectorParse(<<"div.drzWO">>)
        found == ElementSelect(doc, row, sel.sel)
    IN  IF ~sel.ok THEN <<>>
        ELSE IF found # <<>> THEN ElementText(doc, found[1], <<>>)
        ELSE <<>>

extract_link(doc, row) ==
    LET sel   == SelectorParse(<<"a.UxuaJe">>)
        found == ElementSelect(doc, row, sel.sel)
    IN  IF ~sel.ok THEN <<>>
        ELSE IF found # <<>>
        THEN IF HasAttr(doc[found[1]], <<"href">>)
             THEN LET href == doc[found[1]].attrs["href"]
                  IN  IF StartsWith(href, "/url?q=")
                      THEN <<"https://www.google.com">> \o href
                      ELSE href
             ELSE <<>>
        ELSE <<>>

\* parse_single_ad with the type decided by the presence of a shipping element
parse_single_ad_type_by_element(doc, row) ==
    LET total_price == extract_shipping(doc, row)
        found == ElementSelect(doc, row, SelectorParse(<<"div.drzWO">>).sel)
    IN  [seller_name |-> extract_seller_name(doc, row),
         offer_price |-> extract_price(doc, row),
         total_price |-> total_price,
         link        |-> extract_link(doc, row),
         type        |-> IF found = <<>> THEN <<"Local">> ELSE <<"Online">>]

parse_single_ad(doc, row) ==
    LET total_price == extract_shipping(doc, row)
    IN  [seller_name |-> extract_seller_name(doc, row),
         offer_price |-> extract_price(doc, row),
         total_price |-> total_price,
         link        |-> extract_link(doc, row),
         type        |-> IF total_price = <<>> THEN <<"Local">> ELSE <<"Online">>]

\* parse_google_page_internal without the presence check
parse_google_page_internal_ungated(html) ==
    LET row_selector == SelectorParse(<<"tr[data-is-grid-offer=\"true\"]">>)
        rows == HtmlSelect(html, row_selector.sel)
    IN  [n \in 1..Len(rows) |-> parse_single_ad(html, rows[n])]

parse_google_page_internal(html) ==
    LET container_selector == SelectorParse(<<"#sh-osd__online-sellers-cont">>)
        row_selector == SelectorParse(<<"tr[data-is-grid-offer=\"true\"]">>)
    IN  IF ~container_selector.ok THEN <<>>
        ELSE IF HtmlSelect(html, container_selector.sel) = <<>> THEN <<>>
        ELSE IF ~row_selector.ok THEN <<>>
        ELSE LET rows == HtmlSelect(html, row_selector.sel)
             IN  [n \in 1..Len(rows) |-> parse_single_ad(html, rows[n])]

\* html_pages.par_iter().zip(page_identifiers.par_iter()): as many pairs as
\* the shorter of the two
ZipLen(html_pages, page_identifiers) ==
    IF Len(html_pages) <= Len(page_identifiers) THEN Len(html_pages)
    ELSE Len(page_identifiers)

\* py_results.set_item(identifier, ads) for each pair in turn: a key set
\* again takes the later value
RECURSIVE DictOfPairs(_)
DictOfPairs(pairs) ==
    IF pairs = <<>> THEN [x \in {} |-> <<>>]
    ELSE LET front == DictOfPairs(SubSeq(pairs, 1, Len(pairs) - 1))
             last  == pairs[Len(pairs)]
         IN  [k \in DOMAIN front \cup {last[1]} |->
                 IF k = last[1] THEN last[2] ELSE front[k]]

\* ---------------------------------------------------------------- inputs

Shift(nodes, d) == [k \in 1..Len(nodes) |-> [nodes[k] EXCEPT !.depth = @ + d]]

\* the sequences over S of length lo..hi
SeqsOf(S, lo, hi) == UNION {[1..n -> S] : n \in lo..hi}

Item == "class" :> <<"item">>

\* <div class="item"><a href="/x">Title</a><span>$9</span></div>
ItemFull ==
    <<El(0, "div", Item), El(1, "a", "href" :> <<"/x">>), Tx(2, <<"Title">>),
      El(1, "span", NoAttrs), Tx(2, <<"$9">>)>>

\* <div class="item"><span> </span></div><a href="/out">Out</a>: a container
\* without a link, then a link outside every container
ItemBlankStray ==
    <<El(0, "div", Item), El(1, "span", NoAttrs), Tx(2, <<WS>>),
      El(0, "a", "href" :> <<"/out">>), Tx(1, <<"Out">>)>>

\* <div class="item"> pre<a>Un <span>S</span></a></div>
ItemNoHref ==
    <<El(0, "div", Item), Tx(1, <<WS, "pre">>), El(1, "a", NoAttrs), Tx(2, <<"Un", WS>>),
      El(2, "span", NoAttrs), Tx(3, <<"S">>)>>

\* <div class="item"><div class="item"><a href="/n">In</a></div><span>Sp</span></div>
ItemNested ==
    <<El(0, "div", Item), El(1, "div", Item), El(2, "a", "href" :> <<"/n">>),
      Tx(3, <<"In">>), El(1, "span", NoAttrs), Tx(2, <<"Sp">>)>>

\* <table><tbody><tr><td>x</td><td><a href="/y">y</a></td></tr></tbody></table>
ItemRow ==
    <<El(0, "table", NoAttrs), El(1, "tbody", NoAttrs), El(2, "tr", NoAttrs),
      El(3, "td", NoAttrs), Tx(4, <<"x">>), El(3, "td", NoAttrs),
      El(4, "a", "href" :> <<"/y">>), Tx(5, <<"y">>)>>

Blocks == {ItemFull, ItemBlankStray, ItemNoHref, ItemNested, ItemRow}

Docs == {Flatten(bs) : bs \in SeqsOf(Blocks, 0, MaxBlocks)}

ContainerSelectors == {<<"div.item">>, <<"tr">>, <<"td">>, <<"[[">>}

FieldSpecs ==
    {<<"a">>, <<"a", AT, "href">>, <<"td">>, <<"a", AT, "href", AT, "x">>, <<"[[">>}

FieldNames == {"title", "link"}

FieldMappings == UNION {[keys -> FieldSpecs] : keys \in SUBSET FieldNames}

\* the pages and mappings of the batch calls
BulkDocs == {ItemFull \o ItemBlankStray, ItemRow \o ItemNoHref}

BulkMappings ==
    {("title" :> <<"a">>) @@ ("link" :> <<"a", AT, "href">>),
     ("title" :> <<"td">>),
     ("title" :> <<"span">>) @@ ("link" :> <<"[[">>),
     ("title" :> <<"a">>) @@ ("link" :> <<"a", AT, "href", AT, "x">>)}

Offer == "data-is-grid-offer" :> <<"true">>

Class(c) == "class" :> <<c>>

\* an offer row with a shipping value and a redirect link
RowOnline ==
    <<El(0, "tr", Offer), El(1, "td", NoAttrs),
      El(2, "a", Class("b5ycib")), Tx(3, <<"Shop", "Opens in a new window">>),
      El(2, "span", Class("g9WBQb")), Tx(3, <<"$5">>),
      El(2, "div", Class("drzWO")), Tx(3, <<WS, "$7", WS>>),
      El(2, "a", Class("UxuaJe") @@ ("href" :> <<"/url?q=", "s1">>))>>

\* an offer row whose shipping element holds white space only
RowBlankShip ==
    <<El(0, "tr", Offer), El(1, "td", NoAttrs),
      El(2, "a", Class("b5ycib")), Tx(3, <<"Mart">>),
      El(2, "span", Class("g9WBQb")), Tx(3, <<"$6">>),
      El(2, "div", Class("drzWO")), Tx(3, <<WS>>),
      El(2, "a", Class("UxuaJe") @@ ("href" :> <<"http://m">>))>>

\* an offer row with no shipping element, and a link with no href
RowNoShip ==
    <<El(0, "tr", Offer), El(1, "td", NoAttrs),
      El(2, "a", Class("b5ycib")), Tx(3, <<"Den">>),
      El(2, "a", Class("UxuaJe"))>>

\* a row that is no offer row
RowPlain ==
    <<El(0, "tr", NoAttrs), El(1, "td", NoAttrs),
      El(2, "div", Class("drzWO")), Tx(3, <<"$1">>)>>

RowKinds == {RowOnline, RowBlankShip, RowNoShip, RowPlain}

Sentinel == El(0, "div", "id" :> <<"sh-osd__online-sellers-cont">>)

\* a page: the rows in a table, inside the sentinel container or without it
AdDoc(sentinel, rows) ==
    LET table == <<El(0, "table", NoAttrs), El(1, "tbody", NoAttrs)>>
                 \o Shift(Flatten(rows), 2)
    IN  IF sentinel THEN <<Sentinel>> \o Shift(table, 1) ELSE table

AdDocs == {AdDoc(s, rows) : s \in BOOLEAN, rows \in SeqsOf(RowKinds, 0, MaxRows)}

BulkAdDocs ==
    {AdDoc(TRUE, <<RowOnline>>), AdDoc(TRUE, <<RowBlankShip, RowNoShip>>)}

Identifiers == {"p", "q"}

\* <table id="t1">: a row of two cells, a row of none, a row of a blank cell
TableT1 ==
    <<El(0, "table", "id" :> <<"t1">>), El(1, "tbody", NoAttrs),
      El(2, "tr", NoAttrs), El(3, "td", NoAttrs), Tx(4, <<"a">>),
      El(3, "th", NoAttrs), Tx(4, <<WS, "b">>),
      El(2, "tr", NoAttrs),
      El(2, "tr", NoAttrs), El(3, "td", NoAttrs), Tx(4, <<WS>>)>>

\* <table class="x"> with a table inside a cell
TableNested ==
    <<El(0, "table", Class("x")), El(1, "tbody", NoAttrs), El(2, "tr", NoAttrs),
      El(3, "td", NoAttrs), Tx(4, <<"c">>),
      El(4, "table", NoAttrs), El(5, "tbody", NoAttrs), El(6, "tr", NoAttrs),
      El(7, "td", NoAttrs), Tx(8, <<"n">>)>>

TablePlain ==
    <<El(0, "table", NoAttrs), El(1, "tbody", NoAttrs), El(2, "tr", NoAttrs),
      El(3, "th", NoAttrs), Tx(4, <<"h">>)>>

Para == <<El(0, "div", NoAttrs), Tx(1, <<"t">>)>>

TableBlocks == {TableT1, TableNested, TablePlain, Para}

TableDocs == {Flatten(bs) : bs \in SeqsOf(TableBlocks, 0, MaxBlocks)}

TableSelectors == {<<"table">>, <<"#t1">>, <<"table.x">>, <<"[[">>}

\* ---------------------------------------------------------------- the calls

NoMapping == [x \in {} |-> <<>>]

Args(pages, cs, fm, ids) ==
    [html_pages |-> pages, container_selector |-> cs, field_mappings |-> fm,
     page_identifiers |-> ids]

Empty == [filled |-> FALSE, val |-> <<>>]

Init ==
    /\ pc = "idle"
    /\ op = ""
    /\ args = Args(<<>>, <<>>, NoMapping, <<>>)
    /\ pending = {}
    /\ running = {}
    /\ slots = <<>>
    /\ order = <<>>
    /\ ret = Ok(<<>>)

Call_extract_data ==
    \E html \in Docs, cs \in ContainerSelectors, fm \in FieldMappings :
        /\ pc = "idle"
        /\ pc' = "done"
        /\ op' = "extract_data"
        /\ args' = Args(<<html>>, cs, fm, <<>>)
        /\ ret' = extract_data(html, cs, fm)
        /\ UNCHANGED <<pending, running, slots, order>>

Call_extract_table_data ==
    \E html \in TableDocs, ts \in TableSelectors :
        /\ pc = "idle"
        /\ pc' = "done"
        /\ op' = "extract_table_data"
        /\ args' = Args(<<html>>, ts, NoMapping, <<>>)
        /\ ret' = extract_table_data(html, ts)
        /\ UNCHANGED <<pending, running, slots, order>>

\* par_iter(): one task for each item, none started
Fork(name, a, n) ==
    /\ pc = "idle"
    /\ pc' = "par"
    /\ op' = name
    /\ args' = a
    /\ pending' = 1..n
    /\ running' = {}
    /\ slots' = [i \in 1..n |-> Empty]
    /\ order' = <<>>
    /\ UNCHANGED ret

Call_extract_data_bulk ==
    \E pages \in {<<d>> : d \in Docs} \cup SeqsOf(BulkDocs, 0, MaxPages),
       cs \in ContainerSelectors, fm \in BulkMappings :
        Fork("extract_data_bulk", Args(pages, cs, fm, <<>>), Len(pages))

Call_bulk_parse_google_shopping ==
    \E pages \in {<<d>> : d \in AdDocs} \cup SeqsOf(BulkAdDocs, 0, MaxPages) :
        Fork("bulk_parse_google_shopping", Args(pages, <<>>, NoMapping, <<>>), Len(pages))

Call_parse_multiple_google_pages ==
    \E pages \in SeqsOf(BulkAdDocs, 0, MaxPages), ids \in SeqsOf(Identifiers, 0, MaxPages + 1) :
        Fork("parse_multiple_google_pages", Args(pages, <<>>, NoMapping, ids),
             ZipLen(pages, ids))

\* the closure given to map(), applied to item i
TaskResult(i) ==
    CASE op = "extract_data_bulk" ->
            extract_single_page(args.html_pages[i], args.container_selector,
                                args.field_mappings)
      [] op = "bulk_parse_google_shopping" ->
            parse_google_page_internal(args.html_pages[i])
      [] op = "parse_multiple_google_pages" ->
            <<args.page_identifiers[i], parse_google_page_internal(args.html_pages[i])>>

\* collect() of an indexed parallel iterator: the result of item i is
\* written to place i of the vector, whenever it arrives
collect_write(buf, arrived, i, r) == [buf EXCEPT ![i] = [filled |-> TRUE, val |-> r]]

\* a worker takes item i
TaskStart(i) ==
    /\ pc = "par"
    /\ i \in pending
    /\ pending' = pending \ {i}
    /\ running' = running \cup {i}
    /\ UNCHANGED <<pc, op, args, slots, order, ret>>

\* parse_google_page_internal runs inside Python::with_gil
TakesGil == op \in {"bulk_parse_google_shopping", "parse_multiple_google_pages"}

\* The parallel iterator splits its items between pool workers when there
\* are two or more; fewer are worked in the calling thread itself.
OnCallingThread == Len(slots) < 2

\* The calling thread holds the interpreter lock for the whole call (no
\* allow_threads) and is blocked in collect() while pool workers run: a
\* worker that asks for the lock waits for ever, the calling thread gets it
\* again at once.
GilGranted == OnCallingThread

\* the worker holding item i completes it
TaskFinish(i) ==
    /\ pc = "par"
    /\ i \in running
    /\ TakesGil => GilGranted
    /\ running' = running \ {i}
    /\ slots' = collect_write(slots, order, i, TaskResult(i))
    /\ order' = Append(order, i)
    /\ UNCHANGED <<pc, op, args, pending, ret>>

\* the conversion of the collected vector to the returned object
Marshal(results) ==
    IF op = "parse_multiple_google_pages" THEN DictOfPairs(results) ELSE results

\* all tasks joined: the call returns
Join_collect ==
    /\ pc = "par"
    /\ pending = {}
    /\ running = {}
    /\ pc' = "done"
    /\ ret' = Ok(Marshal([i \in 1..Len(slots) |-> slots[i].val]))
    /\ UNCHANGED <<op, args, pending, running, slots, order>>

\* the caller takes the result; the next call starts from nothing kept
Return ==
    /\ pc = "done"
    /\ pc' = "idle"
    /\ op' = ""
    /\ args' = Args(<<>>, <<>>, NoMapping, <<>>)
    /\ pending' = {}
    /\ running' = {}
    /\ slots' = <<>>
    /\ order' = <<>>
    /\ ret' = Ok(<<>>)

Next ==
    \/ Call_extract_data
    \/ Call_extract_table_data
    \/ Call_extract_data_bulk
    \/ Call_bulk_parse_google_shopping
    \/ Call_parse_multiple_google_pages
    \/ \E i \in pending : TaskStart(i)
    \/ \E i \in running : TaskFinish(i)
    \/ Join_collect
    \/ Return

Spec == Init /\ [][Next]_vars

\* ---------------------------------------------------------------- properties

Done(name) == pc = "done" /\ op = name

Pages == args.html_pages

ThePage == args.html_pages[1]

\* the direct reading of a document: the elements of the subtree of node c
\* (c included) that a selector matches
InSubtree(doc, c, sel) == {k \in c..SubtreeEnd(doc, c) : Matches(sel, doc[k])}

\* the containers of a document, in document order
ContainersOf(doc, cs) == Sorted({k \in 1..Len(doc) : Matches(SelectorParse(cs).sel, doc[k])})

SpecParses(spec) ==
    /\ Len(Split(spec, AT)) <= 2
    /\ SelectorParse(Split(spec, AT)[1]).ok

WellFormed(fm) == \A f \in DOMAIN fm : SpecParses(fm[f])

\* C1: batch/single equivalence: the i-th element of extract_data_bulk(pages,
\* container_selector, field_mappings) is the result of extract_data(pages[i],
\* container_selector, field_mappings), for every input
C1_BatchEqualsSingle ==
    Done("extract_data_bulk") =>
        \A i \in 1..Len(Pages) :
            LET single == extract_data(Pages[i], args.container_selector,
                                       args.field_mappings)
            IN  /\ ret.ok = single.ok
                /\ i \in DOMAIN ret.val
                /\ ret.val[i] = single.val

\* the result an order-preserving batch call owes to document i
Owed(i) ==
    IF op = "extract_data_bulk"
    THEN extract_single_page(Pages[i], args.container_selector, args.field_mappings)
    ELSE parse_google_page_internal(Pages[i])

\* a batch call in progress can take a step: a task can start (TaskStart), a
\* started task can complete (TaskFinish), or all tasks are joined and the
\* call returns (Join_collect)
CanProceed ==
    \/ pending # {}
    \/ \E i \in running : TakesGil => GilGranted
    \/ pending = {} /\ running = {}

\* C2: order-preserving fan-in: a call of extract_data_bulk or of
\* bulk_parse_google_shopping returns, whatever order its tasks start and
\* complete in, a sequence of as many entries as there are documents, entry i
\* computed from document i
C2_BatchReturnsInOrder ==
    op \in {"extract_data_bulk", "bulk_parse_google_shopping"} =>
        /\ pc = "par" => CanProceed
        /\ pc = "done" =>
            /\ ret.ok
            /\ Len(ret.val) = Len(Pages)
            /\ \A i \in 1..Len(Pages) : ret.val[i] = Owed(i)

\* the records of one document satisfy the schema of the mapping: the keys of
\* the mapping exactly, and the empty string where nothing in the container
\* matches or no matching element carries the attribute
Uniform(doc, cs, fm, records) ==
    /\ Len(records) = Len(ContainersOf(doc, cs))
    /\ \A n \in 1..Len(records) :
        /\ DOMAIN records[n] = DOMAIN fm
        /\ \A f \in DOMAIN fm :
            LET parts == Split(fm[f], AT)
                hits  == InSubtree(doc, ContainersOf(doc, cs)[n], SelectorParse(parts[1]).sel)
            IN  /\ hits = {} => records[n][f] = <<>>
                /\ (Len(parts) = 2 /\ \A k \in hits : ~HasAttr(doc[k], parts[2]))
                        => records[n][f] = <<>>

\* C3: schema uniformity: with a well-formed mapping every record of
\* extract_data, and of each page of extract_data_bulk, has exactly the keys of
\* the mapping, with the empty string for a field that matched nothing or
\* whose element lacks the attribute
C3_SchemaUniformity ==
    /\ (Done("extract_data") /\ ret.ok /\ WellFormed(args.field_mappings)) =>
            Uniform(ThePage, args.container_selector, args.field_mappings, ret.val)
    /\ (Done("extract_data_bulk") /\ WellFormed(args.field_mappings)
            /\ SelectorParse(args.container_selector).ok) =>
            \A i \in 1..Len(Pages) :
                Uniform(Pages[i], args.container_selector, args.field_mappings, ret.val[i])

\* C3 witness: two records of one call, a field empty in one for want of a
\* match and filled in the other, and an attribute field empty for want of the
\* attribute
C3_Witness ==
    /\ Done("extract_data")
    /\ ret.ok
    /\ WellFormed(args.field_mappings)
    /\ DOMAIN args.field_mappings = FieldNames
    /\ args.field_mappings["link"] = <<"a", AT, "href">>
    /\ Len(ret.val) = 2
    /\ ret.val[1]["title"] = <<>>
    /\ ret.val[2]["title"] # <<>>
    /\ ret.val[2]["link"] = <<>>
    /\ InSubtree(ThePage, ContainersOf(ThePage, args.container_selector)[2],
                 SelectorParse(<<"a">>).sel) # {}

\* C4: batch fail-fast: a container selector or a field selector that cannot
\* compile makes extract_data_bulk fail; it does not return entries that are
\* empty or lack the failing field
C4_BatchFailFast ==
    (Done("extract_data_bulk") /\ Len(Pages) > 0
        /\ (~SelectorParse(args.container_selector).ok
            \/ \E f \in DOMAIN args.field_mappings :
                ~SelectorParse(Split(args.field_mappings[f], AT)[1]).ok))
    => ~ret.ok

\* C5: single-document fail-fast: extract_data fails, returning no records,
\* when the container selector is invalid or a field spec fails to parse: its
\* selector does not compile, or it holds more than one "@"
C5_SingleFailFast ==
    (Done("extract_data")
        /\ (~SelectorParse(args.container_selector).ok \/ ~WellFormed(args.field_mappings)))
    => (~ret.ok /\ ret.val = <<>>)

\* the shorter of the two lengths
Shorter == Min({Len(Pages), Len(args.page_identifiers)})

\* C6: identifier association: a call of parse_multiple_google_pages pairs
\* pages and identifiers by position up to the shorter length n and returns,
\* whatever order its tasks complete in, a mapping that gives
\* page_identifiers[i] the rows of html_pages[i] for every i below n, has no
\* other key, and ignores the positions from n on without error
C6_EveryIdentifierHasItsPage ==
    op = "parse_multiple_google_pages" =>
        /\ pc = "par" => CanProceed
        /\ pc = "done" =>
            /\ ret.ok
            /\ DOMAIN ret.val = {args.page_identifiers[i] : i \in 1..Shorter}
            /\ \A i \in 1..Shorter :
                ret.val[args.page_identifiers[i]] = parse_google_page_internal(Pages[i])

\* a batch of the ad-row extractor whose tasks have all started and none can
\* complete: the call does not return
GilDeadlock ==
    /\ pc = "par"
    /\ TakesGil
    /\ pending = {}
    /\ running # {}
    /\ ~GilGranted

\* the value the claim gives a field: that of the first element of the
\* container's own subtree that the field selector matches
ValueInSubtree(doc, c, spec) ==
    LET parts == Split(spec, AT)
        hits  == InSubtree(doc, c, SelectorParse(parts[1]).sel)
    IN  IF hits = {} THEN <<>>
        ELSE IF Len(parts) = 2 THEN AttrOrEmpty(doc[Min(hits)], parts[2])
        ELSE Trim(Join(TextNodes(doc, Min(hits)), <<WS>>))

\* C7: scoped first-match resolution: one record per matched container, in
\* document order, each field valued from the first element of that
\* container's own subtree that matches the field selector
C7_FirstMatchInContainerSubtree ==
    (Done("extract_data") /\ ret.ok) =>
        LET cs == ContainersOf(ThePage, args.container_selector)
        IN  /\ Len(ret.val) = Len(cs)
            /\ \A n \in 1..Len(cs) :
                \A f \in DOMAIN ret.val[n] :
                    ret.val[n][f] = ValueInSubtree(ThePage, cs[n], args.field_mappings[f])

HasSentinel(doc) ==
    \E k \in 1..Len(doc) :
        /\ doc[k].kind = "el"
        /\ "id" \in DOMAIN doc[k].attrs
        /\ doc[k].attrs["id"] = <<"sh-osd__online-sellers-cont">>

OfferRows(doc) ==
    {k \in 1..Len(doc) :
        /\ doc[k].kind = "el"
        /\ doc[k].tag = "tr"
        /\ "data-is-grid-offer" \in DOMAIN doc[k].attrs
        /\ doc[k].attrs["data-is-grid-offer"] = <<"true">>}

\* C8: presence gate: a document without the sentinel container yields the
\* empty sequence, and no error, even when it holds offer rows; a document
\* with it yields one record for each offer row
C8_PresenceGate ==
    Done("bulk_parse_google_shopping") =>
        /\ ret.ok
        /\ \A i \in 1..Len(Pages) :
            /\ ~HasSentinel(Pages[i]) => ret.val[i] = <<>>
            /\ HasSentinel(Pages[i]) => Len(ret.val[i]) = Cardinality(OfferRows(Pages[i]))

\* C8 witness: a document of two offer rows and no sentinel, returned empty
C8_Witness ==
    /\ Done("bulk_parse_google_shopping")
    /\ Len(Pages) = 1
    /\ ~HasSentinel(Pages[1])
    /\ Cardinality(OfferRows(Pages[1])) = 2
    /\ ret.val = << <<>> >>

\* the untrimmed text of the first shipping element of a row ("" without one)
ShippingText(doc, row) ==
    LET hits == {k \in Descendants(doc, row) :
                    /\ doc[k].kind = "el"
                    /\ doc[k].tag = "div"
                    /\ "class" \in DOMAIN doc[k].attrs
                    /\ "drzWO" \in Range(doc[k].attrs["class"])}
    IN  IF hits = {} THEN <<>> ELSE Flatten(TextNodes(doc, Min(hits)))

\* C9: derived type tag: in every ad record, total_price is the trimmed
\* shipping value, type is "Online" exactly when total_price is not empty and
\* "Local" exactly when it is
C9_DerivedTypeTag ==
    Done("bulk_parse_google_shopping") =>
        \A i \in 1..Len(Pages) :
            \A n \in 1..Len(ret.val[i]) :
                LET ad == ret.val[i][n]
                IN  /\ ad.type \in {<<"Online">>, <<"Local">>}
                    /\ ad.type = <<"Online">> <=> ad.total_price # <<>>
                    /\ ad.type = <<"Local">> <=> ad.total_price = <<>>
                    /\ ad.total_price = Trim(ShippingText(Pages[i], Sorted(OfferRows(Pages[i]))[n]))

\* C9 witness: a page returned with an "Online" record and a "Local" record
\* whose row has a shipping element of white space only
C9_Witness ==
    /\ Done("bulk_parse_google_shopping")
    /\ Len(Pages) = 1
    /\ Len(ret.val[1]) = 2
    /\ ret.val[1][1].type = <<"Online">>
    /\ ret.val[1][2].type = <<"Local">>
    /\ ShippingText(Pages[1], Sorted(OfferRows(Pages[1]))[2]) = <<WS>>

MatchedTables(doc, ts) == {t \in 1..Len(doc) : Matches(SelectorParse(ts).sel, doc[t])}

\* the cells of row r: the text of its td and th elements, in document order
CellsOf(doc, r) ==
    LET cells == Sorted({k \in Descendants(doc, r) :
                            doc[k].kind = "el" /\ doc[k].tag \in {"td", "th"}})
    IN  [n \in 1..Len(cells) |-> Trim(Join(TextNodes(doc, cells[n]), <<WS>>))]

\* the rows below node t that have a cell, in document order
RowsUnder(doc, t) ==
    Sorted({r \in Descendants(doc, t) :
               doc[r].kind = "el" /\ doc[r].tag = "tr" /\ CellsOf(doc, r) # <<>>})

\* C10 as stated: one entry for each row with a cell and none for a row
\* without, tables, rows and cells in document order, each row of a matched
\* table exactly once
C10_EachRowOnce ==
    (Done("extract_table_data") /\ SelectorParse(args.container_selector).ok) =>
        LET rows == Sorted(UNION {Range(RowsUnder(ThePage, t)) :
                                     t \in MatchedTables(ThePage, args.container_selector)})
        IN  /\ ret.ok
            /\ ret.val = [n \in 1..Len(rows) |-> CellsOf(ThePage, rows[n])]

\* C10 amended: one entry for each row with a cell and none for a row
\* without; the matched tables in document order, under each its rows in
\* document order, in each its cells in document order; a row appears once
\* for every matched table it lies in, so once when no matched table lies in
\* another
C10_RowsOfEachMatchedTable ==
    (Done("extract_table_data") /\ SelectorParse(args.container_selector).ok) =>
        LET tables == Sorted(MatchedTables(ThePage, args.container_selector))
            Rows(t) == [n \in 1..Len(RowsUnder(ThePage, t)) |->
                           CellsOf(ThePage, RowsUnder(ThePage, t)[n])]
        IN  /\ ret.ok
            /\ ret.val = Flatten([n \in 1..Len(tables) |-> Rows(tables[n])])

\* C10 witness: a table with a row of no cells and a table matched inside a
\* matched table, whose row is returned twice
C10_Witness ==
    /\ Done("extract_table_data")
    /\ ret.ok
    /\ \E t \in MatchedTables(ThePage, args.container_selector) :
        \E r \in Descendants(ThePage, t) :
            ThePage[r].tag = "tr" /\ CellsOf(ThePage, r) = <<>>
    /\ \E t, u \in MatchedTables(ThePage, args.container_selector) :
        u \in Descendants(ThePage, t) /\ RowsUnder(ThePage, u) # <<>>
    /\ Len(ret.val) > Cardinality(UNION {Range(RowsUnder(ThePage, t)) :
                                t \in MatchedTables(ThePage, args.container_selector)})

====
